---- MODULE Spec2Model ----
(***************************************************************************)
(* rebouncer: a controller that keeps a local pgbouncer pointed at the     *)
(* master of a PostgreSQL failover cluster.                                *)
(*                                                                         *)
(* The model follows the goroutines of the program:                        *)
(*   - mainloop            (rebouncer.go)  the control loop                *)
(*   - the ticker goroutine (rebouncer.go) feeding the loop's ticks        *)
(*   - Server.CheckWithTimeout / Server.Check, one pair per server and one *)
(*     for the pgbouncer health pseudo-server, per round                   *)
(*   - Server.MakeActiveMaster, run step by step inside the loop           *)
(*   - statuscollector and the http handlers calling getServerStatus       *)
(***************************************************************************)
EXTENDS Integers, Sequences, FiniteSets

(* ------------------------------ bounds -------------------------------- *)
\* number of entries of the [servers] section of the configuration
NumServers == 2
\* the wall clock runs from 1 to MaxTime
MaxTime == 2
\* Check goroutines abandoned by a timeout that are tracked until they send
MaxLate == 1
\* the [global] interval of the configuration is between 1 and MaxInterval
\* seconds
MaxInterval == 1
\* the poll-runs counted; where a handler and the clock run beside the
\* loop, the last of them is followed up to its join
MaxRounds == 2

(* ------------------------- program constants -------------------------- *)
DOWN == 0
STANDBY == 1
MASTER == 2
Status == {DOWN, STANDBY, MASTER}

\* the nil *Server
Nil == 0
\* the zero time.Time of a Server that was never checked
ZeroTime == 0

\* indexes of the servers slice; &servers[i] is modelled by i
ServerIds == 1..NumServers
\* the pgbouncerHealth pseudo-server, probed like the others
Health == NumServers + 1
Probes == ServerIds \cup {Health}

\* config["global"]["symlink"] does not exist
Absent == 0

\* httpNagiosHandler turns a time.Duration into whole seconds; where it is
\* modelled the clock counts half seconds
TicksPerSecond == 2
\* An int64 of seconds, which may be beyond the integers TLC computes
\* with, is kept as <<thousand millions, rest>>.
Wide(n) == <<n \div 1000000000, n % 1000000000>>

\* a > b for two such numbers
Greater(a, b) == a[1] > b[1] \/ (a[1] = b[1] /\ a[2] > b[2])

\* what Sub gives for the zero Time, in whole seconds: the largest
\* time.Duration, 9223372036854775807 ns, is 9223372036 s
MaxSeconds == <<9, 223372036>>
\* the clock values needed to have a check one second older than three
\* times the longest interval
NagiosClock == (3 * MaxInterval + 2) * TicksPerSecond

VARIABLES
    pc,               \* position of mainloop
    servers,          \* the backing array of the servers slice
    pgbouncerHealth,  \* the bouncerhealth Server
    currentmaster,    \* mainloop's currentmaster (index or Nil)
    newmaster,        \* mainloop's newmaster of this iteration
    callsite,         \* which call of MakeActiveMaster is running
    aggressiveChecks, \* the global flag
    symlink,          \* what the symlink path points at (server id) or Absent
    ppc,              \* position of each CheckWithTimeout goroutine
    late,             \* Check goroutines abandoned by a timeout, still running
    status,           \* statuscollector's status: which slice it holds
    rpc,              \* position of the http handler
    rpc2,             \* position of a second http handler, in getServerStatus
    req,              \* what the channel req (c of getServerStatus) holds
    got,              \* the slice getServerStatus returned
    ri,               \* how many elements the handler's range loop has copied
    report,           \* what httpNagiosHandler wrote last, with what it computed
    tk,               \* position of the ticker goroutine
    now,              \* the wall clock
    \* history, for stating the properties
    actLog,           \* steps MakeActiveMaster executed in this round
    linkPre,          \* symlink when the round started
    cmPre,            \* currentmaster when the round started
    failedFor,        \* the server whose MakeActiveMaster failed in the round before
    doneFor,          \* the server whose MakeActiveMaster ran to its end in the round before
    published,        \* the results of this round have been sent to statuscollector
    intact,           \* the slice the handler holds is as it was returned
    stored,           \* a CheckWithTimeout of this poll-run has written into the array
    rounds            \* poll-runs started, counted up to MaxRounds

loopVars == <<pc, currentmaster, newmaster, callsite, aggressiveChecks, symlink>>
memberVars == <<servers, pgbouncerHealth>>
probeVars == <<ppc, late>>
readerVars == <<status, rpc, rpc2, req, got, ri, intact, stored, report>>
histVars == <<actLog, linkPre, cmPre, failedFor, doneFor, published, rounds>>
vars == <<loopVars, memberVars, probeVars, readerVars, tk, now, histVars>>

(* ------------------------------ Server -------------------------------- *)
\* a Server as constructed in mainloop: status DOWN, zero times
NewServer == [status |-> DOWN, lastcheck |-> ZeroTime, laststate |-> ZeroTime]

\* the Server a probe id stands for
Member(p) == IF p = Health THEN pgbouncerHealth ELSE servers[p]

\* nothing written by httpNagiosHandler yet
NoReport == [level |-> "none"]

(* ------------------------------- Init --------------------------------- *)
\* The state when main has started statuscollector, mainloop and the http
\* server: mainloop has built its servers and is about to try pgbouncer.
Init ==
    /\ pc = "connect"
    /\ servers = [i \in ServerIds |-> NewServer]
    /\ pgbouncerHealth = NewServer
    /\ currentmaster = Nil
    /\ newmaster = Nil
    /\ callsite = "none"
    /\ aggressiveChecks = FALSE
    /\ symlink \in ServerIds \cup {Absent}
    /\ ppc = [p \in Probes |-> "idle"]
    /\ late = [p \in Probes |-> 0]
    /\ status = "empty"
    /\ rpc = "idle"
    /\ rpc2 = "idle"
    /\ req = "none"
    /\ got = "none"
    /\ ri = 0
    /\ intact = TRUE
    /\ stored = FALSE
    /\ rounds = 0
    /\ report = NoReport
    /\ tk = "off"
    /\ now = 1
    /\ actLog = <<>>
    /\ linkPre = symlink
    /\ cmPre = Nil
    /\ failedFor = Nil
    /\ doneFor = Nil
    /\ published = FALSE

(* ------------------------- mainloop: startup -------------------------- *)
\* as Connect, in a mainloop that starts polling right after the break
Connect_nostatus ==
    /\ pc = "connect"
    /\ \E ok \in BOOLEAN :
        /\ pc' = IF ok THEN "spawn" ELSE "sleep"
        /\ tk' = IF ok THEN "idle" ELSE tk
    /\ UNCHANGED <<currentmaster, newmaster, callsite, aggressiveChecks, symlink>>
    /\ UNCHANGED <<memberVars, probeVars, readerVars, now, histVars>>

\* pgbouncer.OpenConnection() in the startup loop: break on success,
\* otherwise log and sleep
Connect ==
    /\ pc = "connect"
    /\ \E ok \in BOOLEAN : pc' = IF ok THEN "connstr" ELSE "sleep"
    /\ UNCHANGED <<currentmaster, newmaster, callsite, aggressiveChecks, symlink>>
    /\ UNCHANGED <<memberVars, probeVars, readerVars, tk, now, histVars>>

\* buildPassthroughPgbouncerConnStr after the startup loop: when one of the
\* two connection strings does not decode, log.Fatalln ends the process,
\* the http server with it
BuildConnStr ==
    /\ pc = "connstr"
    /\ \E ok \in BOOLEAN : pc' = IF ok THEN "initpub" ELSE "fatal"
    /\ UNCHANGED <<currentmaster, newmaster, callsite, aggressiveChecks, symlink>>
    /\ UNCHANGED <<memberVars, probeVars, readerVars, tk, now, histVars>>

\* the process is running: log.Fatalln has not ended it
Alive == pc # "fatal"

\* time.Sleep(5 * time.Second) is over
Sleep ==
    /\ pc = "sleep"
    /\ pc' = "connect"
    /\ UNCHANGED <<currentmaster, newmaster, callsite, aggressiveChecks, symlink>>
    /\ UNCHANGED <<memberVars, probeVars, readerVars, tk, now, histVars>>

\* statuscollector is at its select, ready to receive from statuschan or
\* from requestchan; it is away from it only between taking a request and
\* answering it
AtSelect == rpc # "reply" /\ rpc2 # "reply"

\* statuschan <- servers, received by statuscollector, which does
\* status = newstatus before it selects again.  The channel carries the
\* slice header: statuscollector now holds the same backing array mainloop
\* keeps working on.
SendStatus ==
    /\ AtSelect
    /\ status' = "servers"
    /\ UNCHANGED <<rpc, req, got, ri, intact, stored, report, rpc2>>

\* "Send initial status", after which the ticker goroutine is started
InitPublish ==
    /\ pc = "initpub"
    /\ SendStatus
    /\ pc' = "spawn"
    /\ tk' = "idle"
    /\ published' = TRUE
    /\ UNCHANGED <<currentmaster, newmaster, callsite, aggressiveChecks, symlink>>
    /\ UNCHANGED <<memberVars, probeVars, now, actLog, linkPre, cmPre, failedFor, doneFor, rounds>>

(* ------------------------- ticker goroutine --------------------------- *)
\* case out := <-shortTimer, with aggressiveChecks read as true: the
\* goroutine goes on to ticker <- out.  (Read as false: continue.)
ShortTimer ==
    /\ tk = "idle"
    /\ aggressiveChecks
    /\ tk' = "short"
    /\ UNCHANGED <<loopVars, memberVars, probeVars, readerVars, now, histVars>>

\* case out := <-longTimer: the goroutine goes on to ticker <- out
LongTimer ==
    /\ tk = "idle"
    /\ tk' = "long"
    /\ UNCHANGED <<loopVars, memberVars, probeVars, readerVars, now, histVars>>

(* -------------------- mainloop: who is the master --------------------- *)
\* the "Who's our new master?" loop from index i on, with the values
\* newmaster and disable have so far
RECURSIVE ScanMasters(_, _, _, _)
ScanMasters(srv, i, nm, dis) ==
    IF i > NumServers THEN [newmaster |-> nm, disable |-> dis]
    ELSE IF srv[i].status = MASTER
         THEN IF nm # Nil
              THEN ScanMasters(srv, i + 1, nm, TRUE)
              ELSE ScanMasters(srv, i + 1, i, dis)
         ELSE ScanMasters(srv, i + 1, nm, dis)

\* as FindMaster, but a second master does not set disable
FindMaster_nodisable(srv) == [ScanMasters(srv, 1, Nil, FALSE) EXCEPT !.disable = FALSE]

\* newmaster and disable after the loop
FindMaster(srv) == ScanMasters(srv, 1, Nil, FALSE)

\* as Decide, without the branch "else if pgbouncerHealth.status != MASTER"
Decide_noretry(srv, health, cur) ==
    LET r == FindMaster(srv) IN
    IF r.newmaster = Nil THEN "none"
    ELSE IF ~r.disable /\ r.newmaster # cur THEN "changed"
    ELSE "none"

\* as Decide, without the test "newmaster == nil" that comes first
Decide_nonil(srv, health, cur) ==
    LET r == FindMaster(srv) IN
    IF ~r.disable
    THEN IF r.newmaster # cur THEN "changed"
         ELSE IF health.status # MASTER THEN "reload"
         ELSE "none"
    ELSE "none"

\* which call of MakeActiveMaster the "Did the master change?" block makes:
\* "changed" (followed by currentmaster = newmaster), "reload" (the retry
\* when pgbouncer does not look good) or "none"
Decide(srv, health, cur) ==
    LET r == FindMaster(srv) IN
    IF r.newmaster = Nil THEN "none"
    ELSE IF ~r.disable
         THEN IF r.newmaster # cur THEN "changed"
              ELSE IF health.status # MASTER THEN "reload"
              ELSE "none"
         ELSE "none"

\* as ClearAggressive, with "!= DOWN" for "== MASTER"
ClearAggressive_notDown(agg, health) ==
    IF agg /\ health.status # DOWN THEN FALSE ELSE agg

\* aggressiveChecks after "if aggressiveChecks && pgbouncerHealth.status == MASTER"
ClearAggressive(agg, health) ==
    IF agg /\ health.status = MASTER THEN FALSE ELSE agg

(* --------------------- mainloop: one poll-run ------------------------- *)
\* the steps of MakeActiveMaster, in the order of its code
StepOrder == <<"connect", "remove", "symlink", "reload">>

\* a history of MakeActiveMaster in which it ran to its end
FullSuccess(log) ==
    /\ Len(log) = Len(StepOrder)
    /\ \A k \in 1..Len(log) : log[k].ok

\* the server for which the round that left history log ran
\* MakeActiveMaster without getting to its end, if it did
FailedAfter(log, nm) == IF log # <<>> /\ ~FullSuccess(log) THEN nm ELSE Nil

\* the server for which the round that left history log ran
\* MakeActiveMaster to its end, if it did
DoneAfter(log, nm) == IF FullSuccess(log) THEN nm ELSE Nil

\* The top of the for loop: one goroutine per server and one for
\* pgbouncerHealth, each calling CheckWithTimeout, which makes its retchan,
\* starts its Check goroutine and selects.
Spawn ==
    /\ pc = "spawn"
    /\ pc' = "join"
    /\ newmaster' = Nil
    /\ callsite' = "none"
    /\ ppc' = [p \in Probes |-> "select"]
    /\ actLog' = <<>>
    /\ linkPre' = symlink
    /\ cmPre' = currentmaster
    /\ failedFor' = FailedAfter(actLog, newmaster)
    /\ doneFor' = DoneAfter(actLog, newmaster)
    /\ published' = FALSE
    /\ stored' = FALSE
    /\ rounds' = IF rounds < MaxRounds THEN rounds + 1 ELSE rounds
    /\ UNCHANGED <<currentmaster, aggressiveChecks, symlink, late>>
    /\ UNCHANGED <<memberVars, status, rpc, req, got, ri, intact, report, rpc2, tk, now>>

\* write the Server of probe p; a handler that holds the slice sees the
\* array change under it when a server's entry changes
SetMember(p, s) ==
    IF p = Health
    THEN /\ pgbouncerHealth' = s
         /\ UNCHANGED <<servers, intact, stored>>
    ELSE /\ servers' = [servers EXCEPT ![p] = s]
         /\ UNCHANGED pgbouncerHealth
         /\ intact' = IF got = "servers" /\ s # servers[p] THEN FALSE ELSE intact
         /\ stored' = TRUE

\* the number of tracked abandoned Check goroutines
RECURSIVE SumLate(_, _)
SumLate(l, n) == IF n = 0 THEN 0 ELSE l[n] + SumLate(l, n - 1)

\* the body of a case of the select in CheckWithTimeout for result st:
\* the test of server.status and, when it differs, server.status = st.
\* The call goes on to laststate (at) or straight to lastcheck (to).
WriteStatus(p, st, at, to) ==
    IF Member(p).status # st
    THEN /\ SetMember(p, [Member(p) EXCEPT !.status = st])
         /\ ppc' = [ppc EXCEPT ![p] = at]
    ELSE /\ UNCHANGED <<memberVars, intact, stored>>
         /\ ppc' = [ppc EXCEPT ![p] = to]

\* Server.Check sends st on retchan and the select of CheckWithTimeout
\* takes "case status := <-retchan".  (retchan belongs to this call
\* alone, so the send and the receive are one step.)
ProbeRecv(p) ==
    /\ ppc[p] = "select"
    /\ \E st \in Status : WriteStatus(p, st, "recv_state", "recv_check")
    /\ UNCHANGED <<late, status, rpc, req, got, ri, report, rpc2>>
    /\ UNCHANGED <<loopVars, tk, now, histVars>>

\* The select of CheckWithTimeout takes "case <-timeout".  The Check
\* goroutine keeps its retchan and goes on running (or has sent already:
\* the value is dropped with the channel).
ProbeTimeout(p) ==
    /\ ppc[p] = "select"
    /\ WriteStatus(p, DOWN, "tmo_state", "tmo_check")
    /\ late' = IF SumLate(late, Health) < MaxLate
               THEN [late EXCEPT ![p] = late[p] + 1]
               ELSE late
    /\ UNCHANGED <<status, rpc, req, got, ri, report, rpc2>>
    /\ UNCHANGED <<loopVars, tk, now, histVars>>

\* server.laststate = time.Now() in the case the select took, after the
\* status has been written
SetLastState(p) ==
    /\ ppc[p] \in {"recv_state", "tmo_state"}
    /\ SetMember(p, [Member(p) EXCEPT !.laststate = now])
    /\ ppc' = [ppc EXCEPT ![p] = IF ppc[p] = "recv_state"
                                  THEN "recv_check" ELSE "tmo_check"]
    /\ UNCHANGED <<late, status, rpc, req, got, ri, report, rpc2>>
    /\ UNCHANGED <<loopVars, tk, now, histVars>>

\* server.lastcheck = time.Now() after the select, and CheckWithTimeout
\* returns
SetLastCheck(p) ==
    /\ ppc[p] \in {"recv_check", "tmo_check"}
    /\ SetMember(p, [Member(p) EXCEPT !.lastcheck = now])
    /\ ppc' = [ppc EXCEPT ![p] = IF ppc[p] = "recv_check"
                                  THEN "answered" ELSE "timedout"]
    /\ UNCHANGED <<late, status, rpc, req, got, ri, report, rpc2>>
    /\ UNCHANGED <<loopVars, tk, now, histVars>>

\* as LateSend, with one retchan per Server shared by all its calls: the
\* late result is taken by the select of the running call
LateSend_shared(p) ==
    /\ late[p] > 0
    /\ ppc[p] = "select"
    /\ late' = [late EXCEPT ![p] = late[p] - 1]
    /\ \E st \in Status : WriteStatus(p, st, "recv_state", "recv_check")
    /\ UNCHANGED <<status, rpc, req, got, ri, report, rpc2>>
    /\ UNCHANGED <<loopVars, tk, now, histVars>>

\* A Check goroutine whose CheckWithTimeout has timed out and returned
\* sends its result at last: into the retchan of that old call, which
\* nobody reads any more.
LateSend(p) ==
    /\ late[p] > 0
    /\ late' = [late EXCEPT ![p] = late[p] - 1]
    /\ UNCHANGED <<ppc, loopVars, memberVars, readerVars, tk, now, histVars>>

\* as Join, with a doneWg that is done when the first CheckWithTimeout
\* has returned
Join_first ==
    /\ pc = "join"
    /\ \E p \in Probes : ppc[p] \in {"answered", "timedout"}
    /\ pc' = "publish"
    /\ UNCHANGED <<currentmaster, newmaster, callsite, aggressiveChecks, symlink>>
    /\ UNCHANGED <<memberVars, probeVars, readerVars, tk, now, histVars>>

\* as Join, in a mainloop that goes from doneWg.Wait() to "Who's our new
\* master?" and sends the status only after the decision
Join_decideFirst ==
    /\ pc = "join"
    /\ \A p \in Probes : ppc[p] \in {"answered", "timedout"}
    /\ pc' = "resolve"
    /\ UNCHANGED <<currentmaster, newmaster, callsite, aggressiveChecks, symlink>>
    /\ UNCHANGED <<memberVars, probeVars, readerVars, tk, now, histVars>>

\* doneWg.Wait() returns: every CheckWithTimeout of the round has returned
Join ==
    /\ pc = "join"
    /\ \A p \in Probes : ppc[p] \in {"answered", "timedout"}
    /\ pc' = "publish"
    /\ UNCHANGED <<currentmaster, newmaster, callsite, aggressiveChecks, symlink>>
    /\ UNCHANGED <<memberVars, probeVars, readerVars, tk, now, histVars>>

\* "Send off the newly collected status"
Publish ==
    /\ pc = "publish"
    /\ SendStatus
    /\ pc' = "resolve"
    /\ published' = TRUE
    /\ UNCHANGED <<currentmaster, newmaster, callsite, aggressiveChecks, symlink>>
    /\ UNCHANGED <<memberVars, probeVars, tk, now, actLog, linkPre, cmPre, failedFor, doneFor, rounds>>

(* ---------------- mainloop: did the master change -------------------- *)
\* from "Who's our new master?" up to the call of MakeActiveMaster, or to
\* the end of the iteration when nothing is to be done
Resolve ==
    /\ pc = "resolve"
    /\ newmaster' = FindMaster(servers).newmaster
    /\ aggressiveChecks' = ClearAggressive(aggressiveChecks, pgbouncerHealth)
    /\ callsite' = Decide(servers, pgbouncerHealth, currentmaster)
    /\ pc' = IF callsite' = "none" THEN "wait" ELSE "act_conn"
    /\ UNCHANGED <<currentmaster, symlink>>
    /\ UNCHANGED <<memberVars, probeVars, readerVars, tk, now, histVars>>

(* ------------------------- MakeActiveMaster --------------------------- *)
\* one more executed step in the history of this round
Logged(step, ok) == Append(actLog, [step |-> step, ok |-> ok])

\* bouncer, err := pgbouncer.OpenConnection(); return on error
ActConnect ==
    /\ pc = "act_conn"
    /\ \E ok \in BOOLEAN :
        /\ actLog' = Logged("connect", ok)
        /\ pc' = IF ok THEN "act_remove" ELSE "return"
    /\ UNCHANGED <<currentmaster, newmaster, callsite, aggressiveChecks, symlink>>
    /\ UNCHANGED <<linkPre, cmPre, failedFor, doneFor, published, rounds>>
    /\ UNCHANGED <<memberVars, probeVars, readerVars, tk, now>>

\* os.Remove of a path: fails when nothing is there, and may fail for
\* other reasons (permissions)
RemoveOk(link, permitted) == link # Absent /\ permitted

\* as ActRemove, without the return on error
ActRemove_noreturn ==
    /\ pc = "act_remove"
    /\ \E permitted \in BOOLEAN :
        LET ok == RemoveOk(symlink, permitted) IN
        /\ actLog' = Logged("remove", ok)
        /\ symlink' = IF ok THEN Absent ELSE symlink
        /\ pc' = "act_symlink"
    /\ UNCHANGED <<currentmaster, newmaster, callsite, aggressiveChecks>>
    /\ UNCHANGED <<linkPre, cmPre, failedFor, doneFor, published, rounds>>
    /\ UNCHANGED <<memberVars, probeVars, readerVars, tk, now>>

\* err = os.Remove(config["global"]["symlink"]); return on error
ActRemove ==
    /\ pc = "act_remove"
    /\ \E permitted \in BOOLEAN :
        LET ok == RemoveOk(symlink, permitted) IN
        /\ actLog' = Logged("remove", ok)
        /\ symlink' = IF ok THEN Absent ELSE symlink
        /\ pc' = IF ok THEN "act_symlink" ELSE "return"
    /\ UNCHANGED <<currentmaster, newmaster, callsite, aggressiveChecks>>
    /\ UNCHANGED <<linkPre, cmPre, failedFor, doneFor, published, rounds>>
    /\ UNCHANGED <<memberVars, probeVars, readerVars, tk, now>>

\* os.Symlink of a path: fails when something is there, and may fail for
\* other reasons
SymlinkOk(link, permitted) == link = Absent /\ permitted

\* as Receiver, with currentmaster in both calls
Receiver_current(site, cur, nm) == cur

\* the receiver of MakeActiveMaster: newmaster in the "changed" call,
\* currentmaster in the "reload" call
Receiver(site, cur, nm) == IF site = "changed" THEN nm ELSE cur

\* err = os.Symlink("<configdir>/<server.name>.ini", symlink); return on error
ActSymlink ==
    /\ pc = "act_symlink"
    /\ \E permitted \in BOOLEAN :
        LET ok == SymlinkOk(symlink, permitted) IN
        /\ actLog' = Logged("symlink", ok)
        /\ symlink' = IF ok THEN Receiver(callsite, currentmaster, newmaster) ELSE symlink
        /\ pc' = IF ok THEN "act_reload" ELSE "return"
    /\ UNCHANGED <<currentmaster, newmaster, callsite, aggressiveChecks>>
    /\ UNCHANGED <<linkPre, cmPre, failedFor, doneFor, published, rounds>>
    /\ UNCHANGED <<memberVars, probeVars, readerVars, tk, now>>

\* as ActReload, with aggressiveChecks = true before the test of err
ActReload_early ==
    /\ pc = "act_reload"
    /\ \E ok \in BOOLEAN : actLog' = Logged("reload", ok)
    /\ aggressiveChecks' = TRUE
    /\ pc' = "return"
    /\ UNCHANGED <<currentmaster, newmaster, callsite, symlink>>
    /\ UNCHANGED <<linkPre, cmPre, failedFor, doneFor, published, rounds>>
    /\ UNCHANGED <<memberVars, probeVars, readerVars, tk, now>>

\* as ActReload, with a RELOAD that flips aggressiveChecks
ActReload_flip ==
    /\ pc = "act_reload"
    /\ \E ok \in BOOLEAN :
        /\ actLog' = Logged("reload", ok)
        /\ aggressiveChecks' = IF ok THEN ~aggressiveChecks ELSE aggressiveChecks
    /\ pc' = "return"
    /\ UNCHANGED <<currentmaster, newmaster, callsite, symlink>>
    /\ UNCHANGED <<linkPre, cmPre, failedFor, doneFor, published, rounds>>
    /\ UNCHANGED <<memberVars, probeVars, readerVars, tk, now>>

\* _, err = bouncer.Exec("RELOAD"); return on error, else
\* aggressiveChecks = true
ActReload ==
    /\ pc = "act_reload"
    /\ \E ok \in BOOLEAN :
        /\ actLog' = Logged("reload", ok)
        /\ aggressiveChecks' = IF ok THEN TRUE ELSE aggressiveChecks
    /\ pc' = "return"
    /\ UNCHANGED <<currentmaster, newmaster, callsite, symlink>>
    /\ UNCHANGED <<linkPre, cmPre, failedFor, doneFor, published, rounds>>
    /\ UNCHANGED <<memberVars, probeVars, readerVars, tk, now>>

\* currentmaster after MakeActiveMaster has returned to mainloop: the
\* call in the "newmaster != currentmaster" branch is followed by
\* currentmaster = newmaster
AfterCall(site, cur, nm) == IF site = "changed" THEN nm ELSE cur

\* MakeActiveMaster returns to mainloop
Return ==
    /\ pc = "return"
    /\ currentmaster' = AfterCall(callsite, currentmaster, newmaster)
    /\ pc' = "wait"
    /\ UNCHANGED <<newmaster, callsite, aggressiveChecks, symlink>>
    /\ UNCHANGED <<memberVars, probeVars, readerVars, tk, now, histVars>>

\* <-ticker: the ticker goroutine hands over a tick
WaitTick ==
    /\ pc = "wait"
    /\ tk \in {"short", "long"}
    /\ tk' = "idle"
    /\ pc' = "spawn"
    /\ UNCHANGED <<currentmaster, newmaster, callsite, aggressiveChecks, symlink>>
    /\ UNCHANGED <<memberVars, probeVars, readerVars, now, histVars>>

(* ------------- statuscollector and getServerStatus -------------------- *)
\* a poll-run has written into the array and has not finished writing:
\* some CheckWithTimeout of a server has made a store and some (the same
\* or another) has not returned, so has its store of lastcheck to come
HalfWritten ==
    /\ stored
    /\ \E i \in ServerIds : ppc[i] \notin {"idle", "answered", "timedout"}

\* what a slice holds right now
Contents(ref) == IF ref = "servers" THEN servers ELSE <<>>

\* mainloop is between its "Who's our new master?" and its "<-ticker"
Deciding == {"resolve", "act_conn", "act_remove", "act_symlink", "act_reload", "return", "wait"}

\* an http request arrives: the handler calls getServerStatus, which makes
\* its channel c and gets to "requestchan <- c"
Request ==
    /\ Alive
    /\ rpc = "idle"
    /\ rpc' = "send"
    /\ UNCHANGED <<status, req, got, ri, intact, stored, report, rpc2>>
    /\ UNCHANGED <<loopVars, memberVars, probeVars, tk, now, histVars>>

\* as Take, in a statuscollector that serves requests only while mainloop
\* waits for its tick
Take_whenWaiting ==
    /\ Alive
    /\ rpc = "send"
    /\ pc = "wait"
    /\ AtSelect
    /\ rpc' = "reply"
    /\ UNCHANGED <<status, req, got, ri, intact, stored, report, rpc2>>
    /\ UNCHANGED <<loopVars, memberVars, probeVars, tk, now, histVars>>

\* the select of statuscollector takes "case req := <-requestchan"
Take ==
    /\ Alive
    /\ rpc = "send"
    /\ AtSelect
    /\ rpc' = "reply"
    /\ UNCHANGED <<status, req, got, ri, intact, stored, report, rpc2>>
    /\ UNCHANGED <<loopVars, memberVars, probeVars, tk, now, histVars>>

\* statuscollector answers "req <- status": c has room for one value, so
\* the send does not wait, and statuscollector is back at its select
Answer ==
    /\ Alive
    /\ rpc = "reply"
    /\ req' = status
    /\ rpc' = "answered"
    /\ UNCHANGED <<status, got, ri, intact, stored, report, rpc2>>
    /\ UNCHANGED <<loopVars, memberVars, probeVars, tk, now, histVars>>

\* "return <-c": getServerStatus returns the slice it finds in c, which
\* shares the array of mainloop's servers as that array is now
Fetch ==
    /\ Alive
    /\ rpc = "answered"
    /\ got' = req
    /\ req' = "none"
    /\ rpc' = "range"
    /\ intact' = ~(req = "servers" /\ HalfWritten)
    /\ UNCHANGED <<status, ri, stored, report, rpc2>>
    /\ UNCHANGED <<loopVars, memberVars, probeVars, tk, now, histVars>>

\* a second http request arrives while the first may be under way: its
\* handler calls getServerStatus and gets to "requestchan <- c"
OtherRequest ==
    /\ Alive
    /\ rpc2 = "idle"
    /\ rpc2' = "send"
    /\ UNCHANGED <<status, rpc, req, got, ri, intact, stored, report>>
    /\ UNCHANGED <<loopVars, memberVars, probeVars, tk, now, histVars>>

\* the select of statuscollector takes the request of the second handler
OtherTake ==
    /\ Alive
    /\ rpc2 = "send"
    /\ AtSelect
    /\ rpc2' = "reply"
    /\ UNCHANGED <<status, rpc, req, got, ri, intact, stored, report>>
    /\ UNCHANGED <<loopVars, memberVars, probeVars, tk, now, histVars>>

\* statuscollector answers the second handler with "req <- status" and
\* is back at its select
OtherAnswer ==
    /\ Alive
    /\ rpc2 = "reply"
    /\ rpc2' = "answered"
    /\ UNCHANGED <<status, rpc, req, got, ri, intact, stored, report>>
    /\ UNCHANGED <<loopVars, memberVars, probeVars, tk, now, histVars>>

\* "return <-c" of the second handler: its getServerStatus returns; what
\* that handler prints is not followed
OtherFetch ==
    /\ Alive
    /\ rpc2 = "answered"
    /\ rpc2' = "idle"
    /\ UNCHANGED <<status, rpc, req, got, ri, intact, stored, report>>
    /\ UNCHANGED <<loopVars, memberVars, probeVars, tk, now, histVars>>

\* one iteration of "for _, s := range servers" of a handler: s is a copy
\* of the next element of the array as it is now, and is printed
RangeNext ==
    /\ Alive
    /\ rpc = "range"
    /\ ri < Len(Contents(got))
    /\ ri' = ri + 1
    /\ UNCHANGED <<status, rpc, req, got, intact, stored, report, rpc2>>
    /\ UNCHANGED <<loopVars, memberVars, probeVars, tk, now, histVars>>

\* the range loop is over and the handler returns
HandlerDone ==
    /\ Alive
    /\ rpc = "range"
    /\ ri = Len(Contents(got))
    /\ rpc' = "idle"
    /\ got' = "none"
    /\ ri' = 0
    /\ intact' = TRUE
    /\ UNCHANGED <<status, req, stored, report, rpc2>>
    /\ UNCHANGED <<loopVars, memberVars, probeVars, tk, now, histVars>>

(* ------------------------- httpNagiosHandler -------------------------- *)
\* the counting loop of httpNagiosHandler from element i on
RECURSIVE CountLoop(_, _, _)
CountLoop(srv, i, acc) ==
    IF i > Len(srv) THEN acc
    ELSE LET s == srv[i]
             c == IF s.status = MASTER
                  THEN [acc EXCEPT !.mastercount = @ + 1]
                  ELSE IF s.status = STANDBY
                       THEN [acc EXCEPT !.standbycount = @ + 1]
                       ELSE [acc EXCEPT !.downcount = @ + 1]
         IN CountLoop(srv, i + 1,
                      IF c.oldestcheck > s.lastcheck
                      THEN [c EXCEPT !.oldestcheck = s.lastcheck]
                      ELSE c)

\* int64(time.Now().Sub(oldestcheck).Seconds()) at time t
SecondsSince(t, oldestcheck) ==
    IF oldestcheck = ZeroTime THEN MaxSeconds
    ELSE Wide((t - oldestcheck) \div TicksPerSecond)

\* as NagiosLevel, with ">=" for ">" in the test of the age
NagiosLevel_atLimit(mastercount, downcount, secondssincelast, maxage) ==
    IF mastercount = 0 THEN "CRITICAL"
    ELSE IF mastercount > 1 THEN "CRITICAL"
    ELSE IF downcount > 0 THEN "WARNING"
    ELSE IF ~Greater(maxage, secondssincelast) THEN "WARNING"
    ELSE "OK"

\* the if / else-if chain at the end of httpNagiosHandler
NagiosLevel(mastercount, downcount, secondssincelast, maxage) ==
    IF mastercount = 0 THEN "CRITICAL"
    ELSE IF mastercount > 1 THEN "CRITICAL"
    ELSE IF downcount > 0 THEN "WARNING"
    ELSE IF Greater(secondssincelast, maxage) THEN "WARNING"
    ELSE "OK"

\* httpNagiosHandler, called at time t0 and getting to its second
\* time.Now() at time t1, with [global] interval = interval, on slice srv
Nagios(srv, t0, t1, interval) ==
    LET c == CountLoop(srv, 1, [mastercount |-> 0, standbycount |-> 0,
                                downcount |-> 0, oldestcheck |-> t0])
    IN [level |-> NagiosLevel(c.mastercount, c.downcount,
                              SecondsSince(t1, c.oldestcheck), Wide(interval * 3)),
        seen |-> srv, t0 |-> t0, t1 |-> t1, interval |-> interval]

\* httpNagiosHandler after its range loop: the second time.Now(), the
\* classification, and the line written.  (The handler was called when the
\* clock showed now.)
NagiosDone ==
    /\ Alive
    /\ rpc = "range"
    /\ ri = Len(Contents(got))
    /\ \E t1 \in now..NagiosClock : \E interval \in 1..MaxInterval :
        report' = Nagios(Contents(got), now, t1, interval)
    /\ rpc' = "idle"
    /\ got' = "none"
    /\ ri' = 0
    /\ intact' = TRUE
    /\ UNCHANGED <<status, req, stored, rpc2>>
    /\ UNCHANGED <<loopVars, memberVars, probeVars, tk, now, histVars>>

\* a Server that was checked last at time t with result st
Checked(st, t) ==
    [status |-> st, lastcheck |-> t,
     laststate |-> IF st = DOWN THEN ZeroTime ELSE t]

\* a Server never checked before, of which the running CheckWithTimeout
\* has written the status and neither time yet (DOWN: a new Server)
FirstWrite(st) == [status |-> st, lastcheck |-> ZeroTime, laststate |-> ZeroTime]

\* States in which httpNagiosHandler can be called: any time, any results
\* of the servers' last checks, with or without a status sent so far.
NagiosInit ==
    /\ now \in 1..NagiosClock
    /\ servers \in [ServerIds -> {FirstWrite(st) : st \in Status} \cup
                       {Checked(st, t) : st \in Status, t \in 1..NagiosClock}]
    /\ \A i \in ServerIds : servers[i].lastcheck <= now
    /\ status \in {"empty", "servers"}
    /\ pc = IF status = "empty" THEN "sleep" ELSE "wait"
    /\ pgbouncerHealth = NewServer
    /\ currentmaster = Nil
    /\ newmaster = Nil
    /\ callsite = "none"
    /\ aggressiveChecks = FALSE
    /\ symlink = Absent
    /\ ppc = [p \in Probes |-> "idle"]
    /\ late = [p \in Probes |-> 0]
    /\ rpc = "idle"
    /\ rpc2 = "idle"
    /\ req = "none"
    /\ got = "none"
    /\ ri = 0
    /\ intact = TRUE
    /\ stored = FALSE
    /\ rounds = 0
    /\ report = NoReport
    /\ tk = "off"
    /\ actLog = <<>>
    /\ linkPre = symlink
    /\ cmPre = Nil
    /\ failedFor = Nil
    /\ doneFor = Nil
    /\ published = (status = "servers")

\* one call of the handler
NagiosNext ==
    \/ Request
    \/ Take
    \/ Answer
    \/ Fetch
    \/ RangeNext
    \/ NagiosDone

NagiosSpec == NagiosInit /\ [][NagiosNext]_vars

(* ------------------------------ clock --------------------------------- *)
\* Time passes, wherever the goroutines are: what time.Now() returns
\* grows
Tick ==
    /\ now < MaxTime
    /\ now' = now + 1
    /\ UNCHANGED <<loopVars, memberVars, probeVars, readerVars, tk, histVars>>

(* --------------------------- specification ---------------------------- *)
\* mainloop with MakeActiveMaster, and the ticker goroutine
LoopNext ==
    \/ Connect
    \/ Sleep
    \/ BuildConnStr
    \/ InitPublish
    \/ ShortTimer
    \/ LongTimer
    \/ Spawn
    \/ Join
    \/ Publish
    \/ Resolve
    \/ ActConnect
    \/ ActRemove
    \/ ActSymlink
    \/ ActReload
    \/ Return
    \/ WaitTick

\* the CheckWithTimeout and Check goroutines
ProbeNext ==
    \/ \E p \in Probes : ProbeRecv(p)
    \/ \E p \in Probes : ProbeTimeout(p)
    \/ \E p \in Probes : SetLastState(p)
    \/ \E p \in Probes : SetLastCheck(p)
    \/ \E p \in Probes : LateSend(p)

\* an http handler
ReaderNext ==
    \/ Request
    \/ Take
    \/ Answer
    \/ Fetch
    \/ RangeNext
    \/ HandlerDone

\* The control loop with its probes, at one reading of the clock: the
\* times a CheckWithTimeout stores decide no step of mainloop or of a
\* probe (TimedSpec has the clock running).
Next == LoopNext \/ ProbeNext

Spec == Init /\ [][Next]_vars

\* the CheckWithTimeout goroutines when every Check sends its result
\* (DOWN included) before the timeout of its caller
AnswerNext ==
    \/ \E p \in Probes : ProbeRecv(p)
    \/ \E p \in Probes : SetLastState(p)
    \/ \E p \in Probes : SetLastCheck(p)

\* mainloop and the ticker goroutine up to poll-run MaxRounds, which is
\* followed as far as doneWg.Wait()
EarlyLoop == LoopNext /\ ((pc = "join" /\ pc' = "publish") => rounds < MaxRounds)

\* the probes that answer in time, up to poll-run MaxRounds; of that last
\* poll-run the probes of the servers, which write the array a handler
\* reads (the health Server is in no slice, and the run's join is not
\* followed)
EarlyAnswer ==
    \E p \in Probes :
        /\ rounds < MaxRounds \/ p \in ServerIds
        /\ ProbeRecv(p) \/ SetLastState(p) \/ SetLastCheck(p)

\* The first poll-runs of the control loop, its probes and an http
\* handler with the wall clock running, with servers that answer in time
\* (to a handler a timeout is a DOWN like any other)
ReaderSpecNext == EarlyLoop \/ EarlyAnswer \/ ReaderNext \/ Tick

\* the program started with the symlink in place, for the first server
ReaderInit == Init /\ symlink = 1

ReaderSpec == ReaderInit /\ [][ReaderSpecNext]_vars

\* a second http handler, as far as getServerStatus
OtherNext ==
    \/ OtherRequest
    \/ OtherTake
    \/ OtherAnswer
    \/ OtherFetch

\* mainloop and the ticker goroutine from startup to the <-ticker that
\* ends the first poll-run
FirstRun == LoopNext /\ ((pc = "spawn" /\ pc' = "join") => rounds = 0)

\* The control loop from its startup retry through its first poll-run,
\* MakeActiveMaster and wait for the tick, its probes, and two http
\* handlers that call getServerStatus over and over, at one reading of
\* the clock
CollectorNext == FirstRun \/ AnswerNext \/ ReaderNext \/ OtherNext

\* What the Go runtime gives statuscollector.  Its select picks among the
\* cases that are ready at random, so a case that is ready again and
\* again is taken: the receive from requestchan for either handler and
\* the receive from statuschan (the other half of a send of mainloop).
\* "req <- status" finds room in c, and the handler, which waits for
\* nothing but c, receives from it.
\* No step that mainloop or a probe takes alone is required to happen.
CollectorFairness ==
    /\ SF_vars(Take)
    /\ SF_vars(OtherTake)
    /\ WF_vars(Answer)
    /\ WF_vars(OtherAnswer)
    /\ WF_vars(Fetch)
    /\ WF_vars(OtherFetch)
    /\ SF_vars(InitPublish)
    /\ SF_vars(Publish)

CollectorSpec == ReaderInit /\ [][CollectorNext]_vars /\ CollectorFairness

\* the steps of mainloop and of the ticker goroutine that come to an end
\* on their own.  bouncer.Exec("RELOAD") is not one of them: it has no
\* deadline and returns when pgbouncer answers, if it does.
LoopProgress ==
    \/ Connect
    \/ Sleep
    \/ BuildConnStr
    \/ InitPublish
    \/ ShortTimer
    \/ LongTimer
    \/ Spawn
    \/ Join
    \/ Publish
    \/ Resolve
    \/ ActConnect
    \/ ActRemove
    \/ ActSymlink
    \/ Return
    \/ WaitTick

\* The control loop and its probes as scheduled by the Go runtime: a
\* goroutine that can take a step takes one, and every timer fires (the
\* timeout of a select, the sleep, the long timer).  A Check goroutine
\* abandoned by its caller may hang for ever, and so may RELOAD.
Fairness ==
    /\ WF_vars(LoopProgress)
    /\ \A p \in Probes :
        WF_vars(ProbeRecv(p) \/ ProbeTimeout(p) \/ SetLastState(p) \/ SetLastCheck(p))

FairSpec == Spec /\ Fairness

\* The control loop and its probes with nothing assumed of the servers or
\* of pgbouncer's answer to RELOAD: a goroutine of mainloop that can take a
\* step takes one and every timer fires, but a Check may never send its
\* result, before or after the timeout of its caller.
TimerFairness ==
    /\ WF_vars(LoopProgress)
    /\ \A p \in Probes :
        WF_vars(ProbeTimeout(p) \/ SetLastState(p) \/ SetLastCheck(p))

ProgressSpec == Spec /\ TimerFairness

\* The control loop and its probes with the wall clock running, with
\* servers that answer in time
TimedNext == LoopNext \/ AnswerNext \/ Tick

TimedSpec == Init /\ [][TimedNext]_vars

(* ----------------------------- properties ----------------------------- *)
\* the servers that report master
Masters == {i \in ServerIds : servers[i].status = MASTER}

\* mainloop is past doneWg.Wait() of the running round: servers and
\* pgbouncerHealth hold the results of this round
Probed == pc \in {"publish"} \cup Deciding

\* mainloop is inside MakeActiveMaster
Acting == {"act_conn", "act_remove", "act_symlink", "act_reload", "return"}

\* this round has not called MakeActiveMaster and has left the symlink and
\* currentmaster as they were when it started
Untouched ==
    /\ pc \notin Acting
    /\ callsite = "none"
    /\ actLog = <<>>
    /\ symlink = linkPre
    /\ currentmaster = cmPre

\* C1: in a round in which two or more servers report master,
\* MakeActiveMaster is not called: the symlink is as before the round, no
\* RELOAD is sent and currentmaster keeps its value, whatever currentmaster
\* and the status of pgbouncerHealth are.
THM_C1 == (Probed /\ Cardinality(Masters) >= 2) => Untouched

\* a round with two masters has ended, in which a reload would have been
\* due had there been one master only
W_C1 ==
    /\ pc = "wait"
    /\ Cardinality(Masters) >= 2
    /\ currentmaster # Nil
    /\ symlink # Absent
    /\ pgbouncerHealth.status # MASTER

\* C2 (as claimed): when a round is over, currentmaster differs from its
\* value before the round only if MakeActiveMaster ran all its steps with
\* success; if it failed at any step currentmaster is as before.
CX_C2 == (pc = "wait" /\ currentmaster # cmPre) => FullSuccess(actLog)

\* C3 (as claimed): the slice getServerStatus returned to a handler holds
\* the servers as they were at one single publish (no poll-run was half
\* written when getServerStatus returned it), and it does not change while
\* the handler holds and reads it.
CX_C3 == (rpc = "range" /\ got = "servers") => intact

\* every round that is over found exactly one master, called
\* MakeActiveMaster, got its connection to pgbouncer, and saw no os.Symlink
\* fail
RoundsGood ==
    pc = "wait" =>
        /\ FindMaster(servers).newmaster # Nil
        /\ ~FindMaster(servers).disable
        /\ actLog # <<>>
        /\ actLog[1].ok
        /\ \A k \in 1..Len(actLog) : actLog[k].step = "symlink" => actLog[k].ok

\* C4 (as claimed): if rounds keep coming, and from some round on every
\* round resolves one master and calls MakeActiveMaster, pgbouncer can be
\* connected to and no creation of the symlink is refused, then the symlink
\* does not stay absent for ever.
CX_C4 == ([]<>(pc = "wait") /\ <>[]RoundsGood) => []<>(symlink # Absent)

\* C5 (as claimed): when MakeActiveMaster failed for a server in the round
\* before, and that server is the one master of this round, this round
\* calls MakeActiveMaster for it again, whatever pgbouncerHealth reports.
CX_C5 ==
    (/\ pc = "wait"
     /\ failedFor # Nil
     /\ FindMaster(servers) = [newmaster |-> failedFor, disable |-> FALSE])
    => (actLog # <<>> /\ newmaster = failedFor)

\* C6: in a round in which no server reports master, MakeActiveMaster is
\* not called: the symlink is as before the round, no RELOAD is sent and
\* currentmaster keeps its value (it is not set back to nil).
THM_C6 == (Probed /\ Masters = {}) => Untouched

\* a round without master has ended while currentmaster is set and
\* pgbouncerHealth is not master
W_C6 ==
    /\ pc = "wait"
    /\ Masters = {}
    /\ currentmaster # Nil
    /\ symlink # Absent
    /\ pgbouncerHealth.status # MASTER

\* a probe has returned in the running poll-run
Returned(p) == ppc[p] \in {"answered", "timedout"}

\* a probe is between its select and its return
Writing(p) == ppc[p] \in {"recv_state", "recv_check", "tmo_state", "tmo_check"}

\* the select of a probe of the running poll-run took the timeout
TimedOut(p) == ppc[p] \in {"tmo_state", "tmo_check", "timedout"}

\* C7: a probe whose select took the timeout leaves its Server down for
\* the round; the result a Check goroutine sends after its caller timed
\* out changes no Server, in this round or a later one; a Server is
\* written only by the steps of its running probe, and its status only by
\* the one step in which the select takes its case.
THM_C7 ==
    /\ [](\A p \in Probes : TimedOut(p) => Member(p).status = DOWN)
    /\ [][\A p \in Probes :
            /\ late'[p] < late[p] => UNCHANGED memberVars
            /\ Member(p)' # Member(p) =>
                  ((ppc[p] = "select" \/ Writing(p)) /\ ppc'[p] # ppc[p])
            /\ Member(p)'.status # Member(p).status => ppc[p] = "select"
            /\ (ppc[p] = "select" /\ ppc'[p] # ppc[p]) => late'[p] >= late[p]]_vars

\* a probe of a Server that had answered before has timed out: the
\* Server is down, and its Check is still running
W_C7 ==
    \E p \in Probes :
        /\ ppc[p] = "timedout"
        /\ late[p] > 0
        /\ Member(p).status = DOWN
        /\ Member(p).laststate # ZeroTime

\* C8: MakeActiveMaster runs connect, remove, symlink, reload in this
\* order and stops at the first step that fails: no step follows a failed
\* one, a failed connect leaves the symlink as it was, and RELOAD is sent
\* only after both the removal and the creation of the symlink succeeded.
THM_C8 ==
    /\ Len(actLog) <= Len(StepOrder)
    /\ \A k \in 1..Len(actLog) :
        /\ actLog[k].step = StepOrder[k]
        /\ k < Len(actLog) => actLog[k].ok
    /\ (actLog # <<>> /\ ~actLog[1].ok) => symlink = linkPre
    /\ (Len(actLog) < 3 /\ pc \notin {"act_symlink", "act_reload"})
           => symlink \in {linkPre, Absent}
    /\ pc = "act_reload" => (Len(actLog) = 3 /\ actLog[2].ok /\ actLog[3].ok)

\* MakeActiveMaster has stopped at a failed creation of the symlink, after
\* the old symlink was removed
W_C8 ==
    /\ pc = "wait"
    /\ Len(actLog) = 3
    /\ ~actLog[3].ok
    /\ linkPre # Absent
    /\ symlink = Absent

\* C10: the symlink is absent or points at the configuration of one of the
\* servers, and after a run of MakeActiveMaster that succeeded in all its
\* steps it points at the configuration of the master of this round.
THM_C10 ==
    /\ symlink \in ServerIds \cup {Absent}
    /\ (pc \in {"return", "wait"} /\ FullSuccess(actLog))
           => (symlink = newmaster /\ newmaster \in Masters)

\* a run of MakeActiveMaster has moved the symlink from one server to another
W_C10 ==
    /\ pc = "wait"
    /\ FullSuccess(actLog)
    /\ linkPre \in ServerIds
    /\ linkPre # newmaster
    /\ symlink = newmaster

\* C9: while mainloop decides and while MakeActiveMaster runs, the status
\* of this round has been sent to statuscollector and every probe of the
\* round has returned; a getServerStatus that statuscollector answers in
\* that time is answered with the servers as this round's probes left
\* them, and the handler receives the slice it was answered with (whole,
\* if it also receives it in that time).
THM_C9 ==
    /\ [](pc \in Deciding =>
            /\ published
            /\ status = "servers"
            /\ \A p \in Probes : Returned(p)
            /\ ~HalfWritten)
    /\ [][(rpc = "reply" /\ rpc' = "answered" /\ pc \in Deciding) =>
            (req' = "servers" /\ Contents(req') = servers /\ ~HalfWritten')]_vars
    /\ [][(rpc = "answered" /\ rpc' = "range") => got' = req]_vars
    /\ [][(rpc = "answered" /\ rpc' = "range" /\ pc \in Deciding /\ req = "servers") =>
            (Contents(got') = servers /\ intact')]_vars

\* a handler holds the status it fetched while MakeActiveMaster is about
\* to send RELOAD
W_C9 ==
    /\ pc = "act_reload"
    /\ published
    /\ rpc = "range"
    /\ ri = 0
    /\ got = "servers"
    /\ intact

\* the RELOAD commands MakeActiveMaster has sent in this round
Reloads == {k \in 1..Len(actLog) : actLog[k].step = "reload"}

\* C11: when MakeActiveMaster runs to its end for a server in one round and
\* again for the same server in the next round, the symlink points at that
\* server's configuration after the first run and after the second, the
\* second run sends one RELOAD, and currentmaster and aggressiveChecks are
\* after the second run what the first run left.
THM_C11 ==
    (pc = "wait" /\ doneFor # Nil /\ newmaster = doneFor /\ FullSuccess(actLog))
        => /\ linkPre = doneFor
           /\ symlink = doneFor
           /\ Cardinality(Reloads) = 1
           /\ cmPre = doneFor
           /\ currentmaster = doneFor
           /\ aggressiveChecks

\* the second of two runs to the end for the same server has returned
W_C11 ==
    /\ pc = "wait"
    /\ doneFor # Nil
    /\ newmaster = doneFor
    /\ callsite = "reload"
    /\ FullSuccess(actLog)
    /\ symlink = doneFor

\* mainloop has not sent a status yet
Unpublished == pc \in {"connect", "sleep", "connstr", "initpub", "fatal"}

\* C12: a getServerStatus that has got to "requestchan <- c" returns
\* (unless log.Fatalln ends the process, handlers included, first), with
\* no step required of mainloop, of the ticker or of a probe (none of them
\* is fair in CollectorSpec, so mainloop may stay for ever in its startup
\* retry, in a poll-run, in MakeActiveMaster or at <-ticker), also while a
\* second handler keeps requesting; what it returns is what
\* statuscollector answered with, which is the status sent last when it
\* answers, and the empty slice before the first send (a send that
\* statuscollector receives after its answer and before the handler's
\* "return <-c" is not in what the handler returns).  A send of mainloop
\* on statuschan is received in the end however the two handlers keep
\* statuscollector busy.
THM_C12 ==
    /\ (rpc = "send") ~> (rpc = "range" \/ ~Alive)
    /\ (rpc2 = "send") ~> (rpc2 = "idle" \/ ~Alive)
    /\ [][(rpc = "reply" /\ rpc' = "answered") => req' = status]_vars
    /\ [][(rpc = "answered" /\ rpc' = "range") => got' = req]_vars
    /\ [](status = "empty" <=> Unpublished)
    /\ (pc = "initpub") ~> (pc = "spawn")
    /\ (pc = "publish") ~> (pc = "resolve")

\* mainloop is at its send of a poll-run's result, one handler waits with
\* its request and statuscollector is answering the other
W_C12 ==
    /\ pc = "publish"
    /\ rpc = "send"
    /\ rpc2 = "reply"

\* the servers of the slice a report was computed from, by status
SeenWith(st) == {i \in 1..Len(report.seen) : report.seen[i].status = st}

\* the oldest lastcheck of the slice a report was computed from, or the
\* time of the call of the handler if that is older
Oldest ==
    LET times == {report.seen[i].lastcheck : i \in 1..Len(report.seen)}
                     \cup {report.t0}
    IN CHOOSE t \in times : \A u \in times : t <= u

\* the level the handler writes is the one that goes with: critical,
\* else stale (or a server down), else ok
LevelIs(critical, warning) ==
    /\ report.level = "CRITICAL" <=> critical
    /\ report.level = "WARNING" <=> (~critical /\ warning)
    /\ report.level = "OK" <=> (~critical /\ ~warning)

\* C13 as claimed: CRITICAL if and only if no or more than one master;
\* otherwise WARNING if and only if a server is down or the oldest
\* lastcheck is more than 3 x interval old (as that of a server never
\* checked is); otherwise OK.
CX_C13 ==
    report # NoReport =>
        LevelIs(Cardinality(SeenWith(MASTER)) # 1,
                \/ SeenWith(DOWN) # {}
                \/ Oldest = ZeroTime
                \/ report.t1 - Oldest > 3 * report.interval * TicksPerSecond)

\* C13 amended: CRITICAL if and only if no or more than one master;
\* otherwise WARNING if and only if a server is down or the age of the
\* oldest lastcheck, in whole seconds with the fraction dropped, is greater
\* than 3 x interval (as that of a server never checked is); otherwise OK.
THM_C13 ==
    report # NoReport =>
        LevelIs(Cardinality(SeenWith(MASTER)) # 1,
                \/ SeenWith(DOWN) # {}
                \/ Oldest = ZeroTime
                \/ (report.t1 - Oldest) \div TicksPerSecond > 3 * report.interval)

\* the handler wrote OK for one master, no server down and an oldest
\* lastcheck that is half a second older than 3 x interval
W_C13 ==
    /\ report # NoReport
    /\ report.level = "OK"
    /\ Cardinality(SeenWith(MASTER)) = 1
    /\ SeenWith(DOWN) = {}
    /\ Oldest # ZeroTime
    /\ report.t1 - Oldest = 3 * report.interval * TicksPerSecond + 1

\* no server has been checked
AllUnchecked == servers = [i \in ServerIds |-> NewServer]

\* C14: until pgbouncer.OpenConnection() has succeeded once, no status is
\* sent, no probe runs, the ticker is not started and MakeActiveMaster is
\* not called; a failed attempt leads to the sleep and the sleep to the
\* next attempt, never to the end of the program; after the successful
\* attempt mainloop builds the connection string of pgbouncerHealth (and
\* ends the program if it cannot), then the servers, all down and never
\* checked, are sent as the first status before the first poll-run starts.
THM_C14 ==
    /\ [](Unpublished =>
            /\ status = "empty"
            /\ \A p \in Probes : ppc[p] = "idle"
            /\ tk = "off"
            /\ actLog = <<>> /\ symlink = linkPre /\ currentmaster = Nil
            /\ AllUnchecked)
    /\ [][pc = "connect" => pc' \in {"connect", "sleep", "connstr"}]_vars
    /\ [][pc = "connstr" => pc' \in {"connstr", "initpub", "fatal"}]_vars
    /\ [][pc = "sleep" => pc' \in {"sleep", "connect"}]_vars
    /\ [](pc = "sleep" => ENABLED Sleep)
    /\ [][(pc = "initpub" /\ pc' # "initpub") =>
            (pc' = "spawn" /\ status' = "servers" /\ AllUnchecked')]_vars
    /\ []((\E p \in Probes : ppc[p] # "idle") => status = "servers")

\* the first status has been sent and the first poll-run is about to start
W_C14 ==
    /\ pc = "spawn"
    /\ status = "servers"
    /\ AllUnchecked
    /\ \A p \in Probes : ppc[p] = "idle"
    /\ tk = "idle"

\* the connections MakeActiveMaster opened in this round: one per call
Calls == {k \in 1..Len(actLog) : actLog[k].step = "connect"}

\* C15: in a round MakeActiveMaster is called at most once; it is called
\* if and only if exactly one server reports master and that server is not
\* currentmaster or pgbouncerHealth is not master; it is called on the
\* server found as master in this round.  With the master unchanged and
\* pgbouncerHealth master nothing is done.
THM_C15 ==
    /\ Cardinality(Calls) <= 1
    /\ pc \in Acting \cup {"wait"} =>
        (callsite # "none" <=>
            /\ Cardinality(Masters) = 1
            /\ \/ Masters # {cmPre}
               \/ pgbouncerHealth.status # MASTER)
    /\ pc \in {"return", "wait"} => (Calls # {} <=> callsite # "none")
    /\ pc \in Acting =>
        /\ Masters = {newmaster}
        /\ Receiver(callsite, currentmaster, newmaster) = newmaster
    /\ (Probed /\ Masters = {cmPre} /\ pgbouncerHealth.status = MASTER)
        => Untouched

\* a round with the master unchanged and pgbouncerHealth master has ended
W_C15 ==
    /\ pc = "wait"
    /\ Masters = {cmPre}
    /\ pgbouncerHealth.status = MASTER
    /\ actLog = <<>>

\* C16 as claimed: when mainloop gets to "<-ticker" and pgbouncerHealth is
\* master in this round, aggressiveChecks is false.
CX_C16 == (pc = "wait" /\ pgbouncerHealth.status = MASTER) => ~aggressiveChecks

\* C17: aggressiveChecks goes from true to false only in the step after
\* the search for the master, and only with pgbouncerHealth master;
\* whatever else a round does, it stays true.
THM_C17 ==
    [][(aggressiveChecks /\ ~aggressiveChecks') =>
          (pc = "resolve" /\ pgbouncerHealth.status = MASTER)]_vars

\* aggressiveChecks is still true at the end of a round with two masters
\* in which pgbouncerHealth answered as a standby
W_C17 ==
    /\ pc = "wait"
    /\ aggressiveChecks
    /\ Cardinality(Masters) >= 2
    /\ pgbouncerHealth.status = STANDBY

\* C18: aggressiveChecks goes from false to true only by the RELOAD of a
\* MakeActiveMaster all of whose steps succeeded; no step of a
\* MakeActiveMaster that does not get to its end changes it.
THM_C18 ==
    /\ [][(~aggressiveChecks /\ aggressiveChecks') =>
            (pc = "act_reload" /\ FullSuccess(actLog'))]_vars
    /\ [][(pc \in Acting /\ ~FullSuccess(actLog')) =>
            aggressiveChecks' = aggressiveChecks]_vars

\* MakeActiveMaster has returned after a RELOAD that failed, and
\* aggressiveChecks is false
W_C18 ==
    /\ pc = "wait"
    /\ Len(actLog) = 4
    /\ ~actLog[4].ok
    /\ ~aggressiveChecks

\* C19: the CheckWithTimeout goroutines of a round are started together,
\* one per server and one for pgbouncerHealth; each returns once, and is
\* not started again before the next round; a Server is written only by
\* its own goroutine, between its select and its return; and from the
\* sending of the status to the end of the round every one of them has
\* returned.
THM_C19 ==
    /\ [](Probed => \A p \in Probes : Returned(p))
    /\ [](pc = "join" => \A p \in Probes : ppc[p] # "idle")
    /\ [][\A p \in Probes :
            /\ (ppc[p] # "select" /\ ppc'[p] = "select") =>
                  (pc = "spawn" /\ \A q \in Probes : ppc'[q] = "select")
            /\ (Returned(p) /\ ppc'[p] # ppc[p]) => pc = "spawn"
            /\ Member(p)' # Member(p) =>
                  /\ pc = "join"
                  /\ (ppc[p] = "select" \/ Writing(p)) /\ ppc'[p] # ppc[p]
                  /\ \A q \in Probes \ {p} : Member(q)' = Member(q)]_vars

\* the status is about to be sent in a round in which one probe timed out
\* and another was answered
W_C19 ==
    /\ pc = "publish"
    /\ \E p \in Probes : ppc[p] = "timedout"
    /\ \E p \in Probes : ppc[p] = "answered" /\ Member(p).status # DOWN

\* C20 as claimed (its invariant): in every state, for every Server,
\* laststate is not later than lastcheck.
CX_C20 == \A p \in Probes : Member(p).laststate <= Member(p).lastcheck

\* C21 as claimed: every poll-run that starts gets to "<-ticker", whether
\* the Checks send their results or not.
CX_C21 == (pc = "spawn") ~> (pc = "wait")

\* C22 as claimed: when mainloop is at "<-ticker" and the ticker goroutine
\* offers it a tick of the short timer, which then starts the next
\* poll-run, aggressiveChecks is true.
CX_C22 == (pc = "wait" /\ tk = "short") => aggressiveChecks

====
